---- MODULE Spec2Model ----
(***************************************************************************)
(* StudyPal (src/index.ts): the flashcard review scheduler (SM-2), the due *)
(* query, the quiz attempt grader, the study sessions and the study streak *)
(* as state machines over the stored documents (flashcards, quizzes, quiz  *)
(* attempts, study sessions), the review requests in flight and the last   *)
(* response.                                                               *)
(*                                                                         *)
(* Numbers.  The easiness factor is kept in hundredths (2.5 is 250): every *)
(* SM-2 increment for an integer quality is a whole number of hundredths,  *)
(* so the arithmetic below is exact where the code's is floating point.    *)
(* The clock is the day `now` and the time of day `tod`, in ticks of which *)
(* a day has DayLen (days have one length: the server's zone has no        *)
(* daylight saving shift).  Flashcard and attempt dates are whole days;    *)
(* session dates are ticks since day 0.                                    *)
(* A quiz score is kept as the fraction num/den it is computed from; a     *)
(* fraction with den = 0 is the code's 0/0, NaN.                           *)
(***************************************************************************)
EXTENDS Integers, Sequences, FiniteSets, TLC

VARIABLES now, tod, flashcards, quizzes, attempts, sessions, reqs, resp

vars == <<now, tod, flashcards, quizzes, attempts, sessions, reqs, resp>>

(* ------------------------------ bounds -------------------------------- *)
\* last day the clock reaches
MaxTime == 1
\* review requests served in the review specification
MaxReviews == 4
\* flashcards in the review specification
MaxCards == 1
\* flashcards beyond the due query's limit in the due specification
MaxOver == 1
\* review requests served in the due specification
MaxDueReviews == 1
\* review requests served in the any-quality specification
MaxAnyReviews == 2
\* quizzes, and attempts, in the quiz specification
MaxQuizzes == 1
MaxAttempts == 1
\* answers in one submission
MaxAnswers == 2
\* last day the clock reaches, and study sessions, in the streak
\* specification
MaxDay == 3
MaxSessions == 3
\* review requests that can be in flight at once
MaxProcs == 2
\* study sessions in the session and the not-found specifications
MaxEndable == 1
\* last day the clock reaches, and review requests served, in the schedule
\* specification
MaxScheduleDay == 7
MaxScheduleReviews == 2

(* ------------------------------ inputs -------------------------------- *)
Users == {"u1", "u2"}
\* req.body.quality: the documented range, and integers outside of it
ValidQualities == 0..5
BadQualities == {-1, 6}
Qualities == ValidQualities \cup BadQualities
ResponseTimes == {4}
\* the due specification reviews with one failing and one passing quality
DueQualities == {1, 4}

(* --------------------------- flashcards: SM-2 ------------------------- *)
\* last_reviewed: null
NoDate == -1

InitialSR(t) ==
  [easiness_factor |-> 250, interval |-> 1, repetitions |-> 0,
   next_review_date |-> t, last_reviewed |-> NoDate]

\* card.front, card.back and card.difficulty are the content service's
NewFlashcard(u, t) ==
  [user_id |-> u, front |-> "front 1", back |-> "back 1",
   difficulty |-> "medium",
   is_archived |-> FALSE, spaced_repetition |-> InitialSR(t),
   review_history |-> <<>>, times_reviewed |-> 0, times_correct |-> 0,
   times_incorrect |-> 0]

\* 0.1 - (5 - quality) * (0.08 + (5 - quality) * 0.02), in hundredths
EFDelta(quality) == 10 - (5 - quality) * (8 + (5 - quality) * 2)

NewEFNoFloor(ef, quality) == ef + EFDelta(quality)

NewEF(ef, quality) ==
  LET e == ef + EFDelta(quality) IN IF e < 130 THEN 130 ELSE e

\* Math.round(interval * ef), ef in hundredths: halves round up
RoundDown(interval, ef) == (interval * ef) \div 100

Round(interval, ef) == (interval * ef + 50) \div 100

NewIntervalNoReset(sr, quality) ==
  IF sr.repetitions = 0 THEN 1
  ELSE IF sr.repetitions = 1 THEN 6
  ELSE Round(sr.interval, NewEF(sr.easiness_factor, quality))

NewInterval(sr, quality) ==
  IF quality < 3 THEN 1
  ELSE IF sr.repetitions = 0 THEN 1
  ELSE IF sr.repetitions = 1 THEN 6
  ELSE Round(sr.interval, NewEF(sr.easiness_factor, quality))

NewRepetitionsNoInc(sr, quality) ==
  IF quality < 3 THEN 0 ELSE sr.repetitions

NewRepetitions(sr, quality) ==
  IF quality < 3 THEN 0 ELSE sr.repetitions + 1

UpdateSRDueNow(sr, quality, t) ==
  [easiness_factor |-> NewEF(sr.easiness_factor, quality),
   interval |-> NewInterval(sr, quality),
   repetitions |-> NewRepetitions(sr, quality),
   next_review_date |-> t,
   last_reviewed |-> t]

UpdateSR(sr, quality, t) ==
  [easiness_factor |-> NewEF(sr.easiness_factor, quality),
   interval |-> NewInterval(sr, quality),
   repetitions |-> NewRepetitions(sr, quality),
   next_review_date |-> t + NewInterval(sr, quality),
   last_reviewed |-> t]

ReviewEvent(quality, rt, t) ==
  [reviewed_at |-> t, quality |-> quality, response_time |-> rt,
   was_correct |-> (quality >= 3)]

ReviewedCard(card, quality, rt, t) ==
  [card EXCEPT
     !.spaced_repetition = UpdateSR(card.spaced_repetition, quality, t),
     !.review_history = Append(card.review_history, ReviewEvent(quality, rt, t)),
     !.times_reviewed = card.times_reviewed + 1,
     !.times_correct = IF quality >= 3 THEN card.times_correct + 1
                       ELSE card.times_correct,
     !.times_incorrect = IF quality >= 3 THEN card.times_incorrect
                         ELSE card.times_incorrect + 1]

\* Flashcard.findOne({_id, user_id}): ids are positions in the collection
CardFound(u, id) ==
  id \in 1..Len(flashcards) /\ flashcards[id].user_id = u

\* the requests being served: each is idle, or has found its card and not
\* yet saved it, or is done
Procs == 1..MaxProcs

(* ------------------------------ actions -------------------------------- *)
Init ==
  /\ now = 0
  /\ tod = 0
  /\ flashcards = <<>>
  /\ quizzes = <<>>
  /\ attempts = <<>>
  /\ sessions = <<>>
  /\ reqs = [p \in Procs |-> [pc |-> "idle"]]
  /\ resp = [route |-> "none", status |-> 0]

\* a day passes
NextDay ==
  /\ now' = now + 1
  /\ UNCHANGED <<tod, flashcards, quizzes, attempts, sessions, reqs, resp>>

Tick ==
  /\ now < MaxTime
  /\ NextDay

\* POST /flashcards/generate: docFound is Document.findOne's answer, count
\* the number of cards the content service returned
Generate(u, docFound, count) ==
  /\ IF ~docFound
     THEN /\ resp' = [route |-> "generate", status |-> 404]
          /\ UNCHANGED flashcards
     ELSE /\ flashcards' = flashcards \o [i \in 1..count |-> NewFlashcard(u, now)]
          /\ resp' = [route |-> "generate", status |-> 201]
  /\ UNCHANGED <<now, tod, quizzes, attempts, sessions, reqs>>

\* no handler of src/index.ts sets is_archived: a card is archived elsewhere
Archive(id) ==
  /\ id \in 1..Len(flashcards)
  /\ ~flashcards[id].is_archived
  /\ flashcards' = [flashcards EXCEPT ![id].is_archived = TRUE]
  /\ UNCHANGED <<now, tod, quizzes, attempts, sessions, reqs, resp>>

\* .limit(50)
DueLimit == 50

\* the find filter of GET /flashcards/due
DueFilterNoDate(card, u, t) ==
  card.user_id = u /\ card.is_archived = FALSE

DueFilter(card, u, t) ==
  /\ card.user_id = u
  /\ card.is_archived = FALSE
  /\ card.spaced_repetition.next_review_date <= t

DueMatching(u, t) ==
  {id \in 1..Len(flashcards) : DueFilter(flashcards[id], u, t)}

\* The query has no sort: the documents come in the order of the plan the
\* store picks, a collection scan (insertion order, which is id order) or a
\* scan of an index on next_review_date (date order, then id order).
Plans == {"collscan", "ixscan"}

Before(plan, i, j) ==
  LET di == flashcards[i].spaced_repetition.next_review_date
      dj == flashcards[j].spaced_repetition.next_review_date
  IN IF plan = "ixscan" THEN di < dj \/ (di = dj /\ i < j) ELSE i < j

\* cursor.limit(n): the first n documents of the plan's order
Limit(S, n, plan) ==
  IF Cardinality(S) <= n THEN S
  ELSE {i \in S : Cardinality({j \in S : Before(plan, j, i)}) < n}

\* GET /flashcards/due; resp.cards holds the ids of the documents returned
Due(u) ==
  /\ \E plan \in Plans :
        resp' = [route |-> "due", status |-> 200, user |-> u,
                 cards |-> Limit(DueMatching(u, now), DueLimit, plan)]
  /\ UNCHANGED <<now, tod, flashcards, quizzes, attempts, sessions, reqs>>

\* POST /flashcards/:id/review
Review(u, id, quality, rt) ==
  /\ IF ~CardFound(u, id)
     THEN /\ resp' = [route |-> "review", status |-> 404]
          /\ UNCHANGED flashcards
     ELSE /\ flashcards' = [flashcards EXCEPT
                              ![id] = ReviewedCard(flashcards[id], quality, rt, now)]
          /\ resp' = [route |-> "review", status |-> 200]
  /\ UNCHANGED <<now, tod, quizzes, attempts, sessions, reqs>>

RECURSIVE SumReviewed(_)
SumReviewed(cs) ==
  IF cs = <<>> THEN 0 ELSE Head(cs).times_reviewed + SumReviewed(Tail(cs))

\* reviews served so far
TotalReviews == SumReviewed(flashcards)

(* ------------------------------ quizzes ------------------------------- *)
\* the questions the content service returns for a quiz
Q1 == [question_id |-> 1, correct_answer |-> "a", points |-> 2,
       difficulty |-> "hard"]

Q2 == [question_id |-> 2, correct_answer |-> "b", points |-> 3,
       difficulty |-> "medium"]

QuestionBanks == {<<>>, <<Q1>>, <<Q1, Q2>>}

\* an answer of a submission: {question_id, user_answer, time_spent}; "9" is
\* the id of no question
AnswerInputs ==
  {[question_id |-> "1", user_answer |-> "a", time_spent |-> 3],
   [question_id |-> "2", user_answer |-> "b", time_spent |-> 3],
   [question_id |-> "2", user_answer |-> "a", time_spent |-> 3],
   [question_id |-> "9", user_answer |-> "a", time_spent |-> 3]}

RECURSIVE SeqsUpTo(_, _)
SeqsUpTo(S, n) ==
  IF n = 0 THEN {<<>>}
  ELSE LET shorter == SeqsUpTo(S, n - 1)
       IN shorter \cup {Append(q, x) : q \in shorter, x \in S}

RECURSIVE SumPoints(_)
SumPoints(qs) == IF qs = <<>> THEN 0 ELSE Head(qs).points + SumPoints(Tail(qs))

PassingScore == 70

NewQuiz(u, questions) ==
  [user_id |-> u, questions |-> questions, total_questions |-> Len(questions),
   total_points |-> SumPoints(questions), passing_score |-> PassingScore]

\* POST /quizzes/generate: docFound is Document.findOne's answer, questions
\* what the content service returned
GenerateQuiz(u, docFound, questions) ==
  /\ IF ~docFound
     THEN /\ resp' = [route |-> "quizgen", status |-> 404]
          /\ UNCHANGED quizzes
     ELSE /\ quizzes' = Append(quizzes, NewQuiz(u, questions))
          /\ resp' = [route |-> "quizgen", status |-> 201]
  /\ UNCHANGED <<now, tod, flashcards, attempts, sessions, reqs>>

\* Quiz.findOne({_id, user_id})
QuizFound(u, id) == id \in 1..Len(quizzes) /\ quizzes[id].user_id = u

\* POST /quizzes/:id/start
StartAttempt(u, id) ==
  /\ IF ~QuizFound(u, id)
     THEN /\ resp' = [route |-> "start", status |-> 404]
          /\ UNCHANGED attempts
     ELSE /\ attempts' = Append(attempts,
                            [user_id |-> u, quiz_id |-> id, started_at |-> now,
                             status |-> "in_progress", answers |-> <<>>])
          /\ resp' = [route |-> "start", status |-> 200]
  /\ UNCHANGED <<now, tod, flashcards, quizzes, sessions, reqs>>

\* QuizAttempt.findOne({_id, user_id})
AttemptFound(u, id) == id \in 1..Len(attempts) /\ attempts[id].user_id = u

\* quiz.questions.find(q => q.question_id.toString() === qid): the position
\* of the first such question, 0 for undefined (ToString is the TLC module's
\* decimal rendering of a number)
FindQuestionOrFirst(quiz, qid) ==
  LET hits == {i \in 1..Len(quiz.questions) :
                 ToString(quiz.questions[i].question_id) = qid}
  IN IF hits # {} THEN CHOOSE i \in hits : \A j \in hits : i <= j
     ELSE IF Len(quiz.questions) > 0 THEN 1 ELSE 0

FindQuestion(quiz, qid) ==
  LET hits == {i \in 1..Len(quiz.questions) :
                 ToString(quiz.questions[i].question_id) = qid}
  IN IF hits = {} THEN 0 ELSE CHOOSE i \in hits : \A j \in hits : i <= j

\* question && question.correct_answer === ans.user_answer, for the question
\* at position i (0: undefined), as a truth value: the code uses undefined
\* only as a false condition
IsCorrectIfMatched(quiz, i, ans) == i # 0

IsCorrect(quiz, i, ans) ==
  i # 0 /\ quiz.questions[i].correct_answer = ans.user_answer

\* the callback of answers.map(...) for one answer, whose question sits at
\* position i: the graded answer is appended, correctCount and totalPoints
\* grow if it is correct
GradeStepOnePoint(quiz, acc, ans, i, isCorrect, t) ==
  [graded |-> Append(acc.graded,
                [question_id |-> ans.question_id,
                 user_answer |-> ans.user_answer,
                 is_correct |-> isCorrect,
                 time_spent |-> ans.time_spent,
                 answered_at |-> t]),
   correctCount |-> acc.correctCount + (IF isCorrect THEN 1 ELSE 0),
   totalPoints |-> acc.totalPoints + (IF isCorrect THEN 1 ELSE 0)]

GradeStep(quiz, acc, ans, i, isCorrect, t) ==
  [graded |-> Append(acc.graded,
                [question_id |-> ans.question_id,
                 user_answer |-> ans.user_answer,
                 is_correct |-> isCorrect,
                 time_spent |-> ans.time_spent,
                 answered_at |-> t]),
   correctCount |-> acc.correctCount + (IF isCorrect THEN 1 ELSE 0),
   totalPoints |-> acc.totalPoints
                   + (IF isCorrect THEN quiz.questions[i].points ELSE 0)]

GradeOne(quiz, acc, ans, i, t) ==
  GradeStep(quiz, acc, ans, i, IsCorrect(quiz, i, ans), t)

\* answers.map(...): the graded answers, with correctCount and totalPoints
RECURSIVE GradeAll(_, _, _)
GradeAll(quiz, answers, t) ==
  IF answers = <<>>
  THEN [graded |-> <<>>, correctCount |-> 0, totalPoints |-> 0]
  ELSE GradeOne(quiz, GradeAll(quiz, SubSeq(answers, 1, Len(answers) - 1), t),
                answers[Len(answers)],
                FindQuestion(quiz, answers[Len(answers)].question_id), t)

\* (correctCount / quiz.total_questions) * 100, as a fraction; 0/0 is NaN
Score(correctCount, totalQuestions) ==
  [num |-> correctCount * 100, den |-> totalQuestions]

\* gradedAnswers.reduce((sum, ans) => sum + ans.time_spent, 0)
RECURSIVE TotalTime(_)
TotalTime(graded) ==
  IF graded = <<>> THEN 0 ELSE Head(graded).time_spent + TotalTime(Tail(graded))

\* score >= quiz.passing_score; every comparison with NaN is false
Passed(quiz, score) ==
  score.den # 0 /\ score.num >= quiz.passing_score * score.den

\* [...new Set(tags)]: the first occurrence of each tag, in order
AddNew(front, tag) ==
  IF \E k \in 1..Len(front) : front[k] = tag THEN front ELSE Append(front, tag)

DedupNone(tags) == tags

RECURSIVE Dedup(_)
Dedup(tags) ==
  IF tags = <<>> THEN <<>>
  ELSE AddNew(Dedup(SubSeq(tags, 1, Len(tags) - 1)), tags[Len(tags)])

\* the callback of gradedAnswers.forEach(...) for one graded answer, whose
\* question sits at position i
AnalyseStep(quiz, acc, ans, i) ==
  IF i = 0 THEN acc
  ELSE IF ans.is_correct
  THEN IF quiz.questions[i].difficulty = "hard"
       THEN [acc EXCEPT !.strengths = Append(@, "Complex concepts")]
       ELSE acc
  ELSE [acc EXCEPT !.weaknesses =
          Append(@, quiz.questions[i].difficulty \o " questions")]

\* gradedAnswers.forEach(...): the strengths and weaknesses pushed
RECURSIVE Analyse(_, _)
Analyse(quiz, graded) ==
  IF graded = <<>> THEN [strengths |-> <<>>, weaknesses |-> <<>>]
  ELSE AnalyseStep(quiz, Analyse(quiz, SubSeq(graded, 1, Len(graded) - 1)),
                   graded[Len(graded)],
                   FindQuestion(quiz, graded[Len(graded)].question_id))

\* everything the handler computes from the quiz and the submitted answers:
\* g is the outcome of the map, a that of the forEach
GradeResult(quiz, g, a) ==
  [answers |-> g.graded,
   correctCount |-> g.correctCount,
   totalPoints |-> g.totalPoints,
   score |-> Score(g.correctCount, quiz.total_questions),
   totalTime |-> TotalTime(g.graded),
   performance_analysis |->
     [strengths |-> Dedup(a.strengths), weaknesses |-> Dedup(a.weaknesses)]]

GradeWith(quiz, g) == GradeResult(quiz, g, Analyse(quiz, g.graded))

Grade(quiz, answers, t) == GradeWith(quiz, GradeAll(quiz, answers, t))

GradedAttempt(attempt, r, t) ==
  [user_id |-> attempt.user_id, quiz_id |-> attempt.quiz_id,
   started_at |-> attempt.started_at,
   answers |-> r.answers,
   score |-> r.score,
   points_earned |-> r.totalPoints,
   total_time |-> r.totalTime,
   completed_at |-> t,
   status |-> "completed",
   performance_analysis |-> r.performance_analysis]

SubmitResponse(quiz, r) ==
  [route |-> "submit", status |-> 200,
   score |-> r.score,
   points_earned |-> r.totalPoints,
   total_points |-> quiz.total_points,
   correct_answers |-> r.correctCount,
   total_questions |-> quiz.total_questions,
   passed |-> Passed(quiz, r.score),
   performance_analysis |-> r.performance_analysis,
   time_spent |-> r.totalTime]

\* the handler's writes: attempt.save() and res.json(...) of the result r
Graded(id, quiz, r) ==
  /\ attempts' = [attempts EXCEPT ![id] = GradedAttempt(attempts[id], r, now)]
  /\ resp' = SubmitResponse(quiz, r)

\* POST /quizzes/attempts/:id/submit
Submit(u, id, answers) ==
  /\ IF ~AttemptFound(u, id)
     THEN /\ resp' = [route |-> "submit", status |-> 404]
          /\ UNCHANGED attempts
     ELSE Graded(id, quizzes[attempts[id].quiz_id],
                 Grade(quizzes[attempts[id].quiz_id], answers, now))
  /\ UNCHANGED <<now, tod, flashcards, quizzes, sessions, reqs>>

\* req.body of PUT /flashcards/:id: {front, back, difficulty, is_starred}
UpdateInputs ==
  {[front |-> "front 2", back |-> "back 1", difficulty |-> "easy",
    is_starred |-> TRUE]}

\* the update document {front, back, difficulty, is_starred} applied to a
\* card: these four paths are set, every other path stays
UpdatedCard(card, body) ==
  [f \in DOMAIN card \cup DOMAIN body |->
     IF f \in DOMAIN body THEN body[f] ELSE card[f]]

\* PUT /flashcards/:id: Flashcard.findOneAndUpdate, one step of the store
Update(u, id, body) ==
  /\ IF ~CardFound(u, id)
     THEN /\ resp' = [route |-> "update", status |-> 404]
          /\ UNCHANGED flashcards
     ELSE /\ flashcards' = [flashcards EXCEPT ![id] = UpdatedCard(flashcards[id], body)]
          /\ resp' = [route |-> "update", status |-> 200]
  /\ UNCHANGED <<now, tod, quizzes, attempts, sessions, reqs>>

(* ------------------------- reviews in flight -------------------------- *)
\* The review handler awaits Flashcard.findOne and flashcard.save(): between
\* the two, other requests run.  A request holds the copy of the card it
\* found and changes that copy; save() writes it back.

\* await Flashcard.findOne(...) of request p, and the 404 answer
ReviewFind(p, u, id, quality, rt) ==
  /\ reqs[p].pc = "idle"
  /\ IF ~CardFound(u, id)
     THEN /\ resp' = [route |-> "review", status |-> 404]
          /\ UNCHANGED reqs
     ELSE /\ reqs' = [reqs EXCEPT ![p] =
                        [pc |-> "found", id |-> id, quality |-> quality,
                         rt |-> rt, doc |-> flashcards[id]]]
          /\ UNCHANGED resp
  /\ UNCHANGED <<now, tod, flashcards, quizzes, attempts, sessions>>

\* flashcard.save() writes what the handler changed in the copy: the paths
\* it assigned are set to the copy's values, and the event it pushed is
\* appended to the stored history
SavedCardWhole(stored, copy, quality) == copy

SavedCard(stored, copy, quality) ==
  [stored EXCEPT
     !.spaced_repetition = copy.spaced_repetition,
     !.review_history =
        Append(stored.review_history,
               copy.review_history[Len(copy.review_history)]),
     !.times_reviewed = copy.times_reviewed,
     !.times_correct = IF quality >= 3 THEN copy.times_correct ELSE @,
     !.times_incorrect = IF quality >= 3 THEN @ ELSE copy.times_incorrect]

\* the rest of the handler for request p: the updates of the copy, save()
\* and the answer
ReviewSave(p) ==
  /\ reqs[p].pc = "found"
  /\ flashcards' =
       [flashcards EXCEPT ![reqs[p].id] =
          SavedCard(flashcards[reqs[p].id],
                    ReviewedCard(reqs[p].doc, reqs[p].quality, reqs[p].rt, now),
                    reqs[p].quality)]
  /\ reqs' = [reqs EXCEPT ![p].pc = "done"]
  /\ resp' = [route |-> "review", status |-> 200]
  /\ UNCHANGED <<now, tod, quizzes, attempts, sessions>>

(* --------------------------- study sessions --------------------------- *)
\* 1000 * 60 * 60 * 24 milliseconds, in ticks
DayLen == 2

\* new Date(), in ticks
Stamp == now * DayLen + tod

\* the clock moves on by a tick
Clock ==
  /\ IF tod + 1 < DayLen
     THEN tod' = tod + 1 /\ now' = now
     ELSE tod' = 0 /\ now' = now + 1
  /\ UNCHANGED <<flashcards, quizzes, attempts, sessions, reqs, resp>>

\* POST /study/session/start: the session is stored without ended_at
StartSession(u) ==
  /\ sessions' = Append(sessions, [user_id |-> u, started_at |-> Stamp])
  /\ resp' = [route |-> "sessionstart", status |-> 200]
  /\ UNCHANGED <<now, tod, flashcards, quizzes, attempts, reqs>>

\* StudySession.findOne({_id}), whoever the user
SessionFoundAnyUser(u, id) == id \in 1..Len(sessions)

\* StudySession.findOne({_id, user_id})
SessionFound(u, id) == id \in 1..Len(sessions) /\ sessions[id].user_id = u

\* Math.round((ended_at - started_at) / 60000): whole minutes, a day has 1440
Duration(started, ended) == (ended - started) * (1440 \div DayLen)

\* cards_reviewed > 0 ? (cards_correct / cards_reviewed) * 100 : 0, as a
\* fraction
FocusScore(reviewed, correct) ==
  IF reviewed > 0 THEN [num |-> correct * 100, den |-> reviewed]
  ELSE [num |-> 0, den |-> 1]

EndedSession(session, reviewed, correct, t) ==
  [user_id |-> session.user_id, started_at |-> session.started_at,
   ended_at |-> t,
   duration |-> Duration(session.started_at, t),
   cards_reviewed |-> reviewed,
   cards_correct |-> correct,
   focus_score |-> FocusScore(reviewed, correct)]

\* req.body of an end request: <<cards_reviewed, cards_correct>>
EndInputs == {<<0, 0>>, <<2, 1>>}

\* POST /study/session/:id/end
EndSession(u, id, reviewed, correct) ==
  /\ IF ~SessionFound(u, id)
     THEN /\ resp' = [route |-> "sessionend", status |-> 404]
          /\ UNCHANGED sessions
     ELSE /\ sessions' = [sessions EXCEPT
                            ![id] = EndedSession(sessions[id], reviewed, correct, Stamp)]
          /\ resp' = [route |-> "sessionend", status |-> 200]
  /\ UNCHANGED <<now, tod, flashcards, quizzes, attempts, reqs>>

(* ----------------------------- study streak --------------------------- *)
\* date.setHours(0, 0, 0, 0): the first tick of the date's day
StartOfDayNone(ts) == ts

StartOfDay(ts) == ts - (ts % DayLen)

\* sessions.sort((a, b) => b.started_at - a.started_at): latest first, equal
\* dates in their order of the input (the sort is stable)
InsertDesc(sorted, x) ==
  LET ahead == Cardinality({k \in 1..Len(sorted) :
                              sorted[k].started_at >= x.started_at})
  IN SubSeq(sorted, 1, ahead) \o <<x>> \o SubSeq(sorted, ahead + 1, Len(sorted))

SortNone(ss) == ss

RECURSIVE SortDesc(_)
SortDesc(ss) ==
  IF ss = <<>> THEN <<>>
  ELSE InsertDesc(SortDesc(SubSeq(ss, 1, Len(ss) - 1)), ss[Len(ss)])

\* Math.floor((currentDate - sessionDate) / (1000 * 60 * 60 * 24))
DayDiff(currentDate, sessionDate) == (currentDate - sessionDate) \div DayLen

\* the for loop of calculateStreak from the i-th session of the sorted list
RECURSIVE StreakLoop(_, _, _, _)
StreakLoop(sorted, i, streak, currentDate) ==
  IF i > Len(sorted) THEN streak
  ELSE LET sessionDate == StartOfDay(sorted[i].started_at)
           dayDiff == DayDiff(currentDate, sessionDate)
       IN IF dayDiff = streak
          THEN StreakLoop(sorted, i + 1, streak + 1, sessionDate)
          ELSE IF dayDiff > streak THEN streak
          ELSE StreakLoop(sorted, i + 1, streak, currentDate)

\* calculateStreak(sessions) called at time t
calculateStreak(ss, t) ==
  IF Len(ss) = 0 THEN 0 ELSE StreakLoop(SortDesc(ss), 1, 0, StartOfDay(t))

\* StudySession.find({user_id}): the user's sessions, in insertion order
RECURSIVE SessionsOf(_, _)
SessionsOf(ss, u) ==
  IF ss = <<>> THEN <<>>
  ELSE IF Head(ss).user_id = u THEN <<Head(ss)>> \o SessionsOf(Tail(ss), u)
  ELSE SessionsOf(Tail(ss), u)

\* sessions.reduce((sum, s) => sum + (s.duration || 0), 0)
RECURSIVE TotalStudyTime(_)
TotalStudyTime(ss) ==
  IF ss = <<>> THEN 0
  ELSE (IF "duration" \in DOMAIN Head(ss) THEN Head(ss).duration ELSE 0)
       + TotalStudyTime(Tail(ss))

\* GET /study/analytics: the response's numbers that come from the
\* sessions and the flashcards, and the streak (sessions.sort for
\* recent_sessions leaves the sessions latest first before calculateStreak
\* sorts them again)
Analytics(u) ==
  /\ resp' = [route |-> "analytics", status |-> 200, user |-> u,
              total_study_time |-> TotalStudyTime(SessionsOf(sessions, u)),
              total_flashcards |->
                Cardinality({id \in 1..Len(flashcards) :
                               flashcards[id].user_id = u}),
              flashcards_reviewed |->
                Cardinality({id \in 1..Len(flashcards) :
                               /\ flashcards[id].user_id = u
                               /\ flashcards[id].times_reviewed > 0}),
              quizzes_completed |->
                Cardinality({a \in 1..Len(attempts) :
                               /\ attempts[a].user_id = u
                               /\ attempts[a].status = "completed"}),
              study_streak |->
                calculateStreak(SortDesc(SessionsOf(sessions, u)), Stamp)]
  /\ UNCHANGED <<now, tod, flashcards, quizzes, attempts, sessions, reqs>>

(* --------------------------- specifications --------------------------- *)
\* the review specification: cards are generated one at a time and reviewed
\* with the documented qualities
NextReview ==
  \/ \E u \in Users, d \in BOOLEAN :
        Len(flashcards) < MaxCards /\ Generate(u, d, 1)
  \/ \E u \in Users, id \in 1..(Len(flashcards) + 1), q \in ValidQualities,
        rt \in ResponseTimes :
        TotalReviews < MaxReviews /\ Review(u, id, q, rt)

SpecReview == Init /\ [][NextReview]_vars

\* the due specification: up to DueLimit + MaxOver cards, generated one at a
\* time or DueLimit at a time; reviews name the first card or a card that
\* does not exist, and the last card may be archived
Targets == {1, Len(flashcards) + 1}

NextDue ==
  \/ Tick
  \/ \E u \in Users :
        /\ Len(flashcards) % DueLimit < MaxOver
        /\ Generate(u, TRUE, 1)
  \/ /\ Len(flashcards) < DueLimit
     /\ Generate("u1", TRUE, DueLimit)
  \/ \E u \in Users, id \in Targets, q \in DueQualities, rt \in ResponseTimes :
        /\ Len(flashcards) > 0 => flashcards[1].times_reviewed < MaxDueReviews
        /\ Review(u, id, q, rt)
  \/ Archive(Len(flashcards))
  \/ \E u \in Users : Due(u)

SpecDue == Init /\ [][NextDue]_vars

\* the any-quality specification: as the review specification, with the
\* qualities outside 0..5 a request can carry as well
NextQuality ==
  \/ \E u \in Users, d \in BOOLEAN :
        Len(flashcards) < MaxCards /\ Generate(u, d, 1)
  \/ \E u \in Users, id \in 1..(Len(flashcards) + 1), q \in Qualities,
        rt \in ResponseTimes :
        TotalReviews < MaxAnyReviews /\ Review(u, id, q, rt)

SpecQuality == Init /\ [][NextQuality]_vars

\* the quiz specification: user u1 generates quizzes and both users start
\* attempts; u1 submits every answer sequence to the first attempt, u2 and
\* requests for an attempt that does not exist submit an empty one
NextQuiz ==
  \/ \E d \in BOOLEAN, qs \in QuestionBanks :
        Len(quizzes) < MaxQuizzes /\ GenerateQuiz("u1", d, qs)
  \/ \E u \in Users, id \in 1..(Len(quizzes) + 1) :
        Len(attempts) < MaxAttempts /\ StartAttempt(u, id)
  \/ \E answers \in SeqsUpTo(AnswerInputs, MaxAnswers) : Submit("u1", 1, answers)
  \/ \E u \in Users, id \in {1, Len(attempts) + 1} :
        ~AttemptFound(u, id) /\ Submit(u, id, <<>>)

SpecQuiz == Init /\ [][NextQuiz]_vars

\* the streak specification: the clock runs to the end of day MaxDay, both
\* users start sessions and ask for their analytics
NextStreak ==
  \/ (now < MaxDay \/ tod + 1 < DayLen) /\ Clock
  \/ \E u \in Users : Len(sessions) < MaxSessions /\ StartSession(u)
  \/ \E u \in Users : Analytics(u)

SpecStreak == Init /\ [][NextStreak]_vars

\* the concurrent review specification: each request in flight finds its
\* card and saves it in two steps, interleaved with the other requests
NextConcurrent ==
  \/ \E u \in Users : Len(flashcards) < MaxCards /\ Generate(u, TRUE, 1)
  \/ \E p \in Procs, u \in Users, id \in Targets, q \in DueQualities,
        rt \in ResponseTimes : ReviewFind(p, u, id, q, rt)
  \/ \E p \in Procs : ReviewSave(p)

SpecConcurrent == Init /\ [][NextConcurrent]_vars

\* the session specification: the clock runs into day MaxTime, both users
\* start sessions and end sessions, theirs or not, once or again
NextSession ==
  \/ now < MaxTime /\ Clock
  \/ \E u \in Users : Len(sessions) < MaxEndable /\ StartSession(u)
  \/ \E u \in Users, id \in 1..(Len(sessions) + 1), in \in EndInputs :
        EndSession(u, id, in[1], in[2])

SpecSession == Init /\ [][NextSession]_vars

\* the not-found specification: user u1 creates cards, a quiz, attempts and
\* sessions; both users review, submit and end, naming the first document
\* or one that does not exist
NextNotFound ==
  \/ Len(flashcards) < MaxCards /\ Generate("u1", TRUE, 1)
  \/ \E u \in Users, id \in Targets, q \in DueQualities, rt \in ResponseTimes :
        TotalReviews < MaxDueReviews /\ Review(u, id, q, rt)
  \/ Len(quizzes) < MaxQuizzes /\ GenerateQuiz("u1", TRUE, <<Q1>>)
  \/ \E u \in Users : Len(attempts) < MaxAttempts /\ StartAttempt(u, 1)
  \/ \E u \in Users, id \in {1, Len(attempts) + 1},
        answers \in SeqsUpTo(AnswerInputs, 1) :
        (\A k \in 1..Len(answers) : answers[k].question_id = "1")
        /\ Submit(u, id, answers)
  \/ Len(sessions) < MaxEndable /\ StartSession("u1")
  \/ \E u \in Users, id \in {1, Len(sessions) + 1} : EndSession(u, id, 2, 1)

SpecNotFound == Init /\ [][NextNotFound]_vars

\* the schedule specification: user u1's cards exist from day 0, the clock
\* runs to day MaxScheduleDay, the first card is reviewed on any day, and
\* both users ask for their due cards
NextSchedule ==
  \/ now < MaxScheduleDay /\ NextDay
  \/ now = 0 /\ Len(flashcards) < MaxCards /\ Generate("u1", TRUE, 1)
  \/ \E u \in Users, id \in Targets, q \in DueQualities, rt \in ResponseTimes :
        TotalReviews < MaxScheduleReviews /\ Review(u, id, q, rt)
  \/ Archive(Len(flashcards))
  \/ \E u \in Users : Due(u)

SpecSchedule == Init /\ [][NextSchedule]_vars

\* the history specification: reviews of user u1's card by both users, one
\* after the other or interleaved, among updates of its content and its
\* archiving
NextHistory ==
  \/ Len(flashcards) < MaxCards /\ Generate("u1", TRUE, 1)
  \/ \E p \in Procs, u \in Users, id \in Targets, q \in DueQualities,
        rt \in ResponseTimes : ReviewFind(p, u, id, q, rt)
  \/ \E p \in Procs : ReviewSave(p)
  \/ \E u \in Users, id \in Targets, body \in UpdateInputs : Update(u, id, body)
  \/ Archive(Len(flashcards))

SpecHistory == Init /\ [][NextHistory]_vars

(* ------------------------------ claims -------------------------------- *)
CardIds == 1..Len(flashcards)

SR(id) == flashcards[id].spaced_repetition

History(id) == flashcards[id].review_history

AllQuality(h, q) == \A k \in 1..Len(h) : h[k].quality = q

\* the step reviews card id: its history grows by one event
Reviewed(id) ==
  /\ id \in CardIds
  /\ Len(flashcards'[id].review_history) = Len(History(id)) + 1

LastQuality(id) ==
  flashcards'[id].review_history[Len(flashcards'[id].review_history)].quality

\* C1: after any sequence of reviews with qualities in 0..5 from the initial
\* memory state, easinessFactor >= 1.3, interval >= 1 and repetitions >= 0.
C1_MemoryStateInvariant ==
  \A id \in CardIds :
     (\A k \in 1..Len(History(id)) : History(id)[k].quality \in 0..5)
     => /\ SR(id).easiness_factor >= 130
        /\ SR(id).interval >= 1
        /\ SR(id).repetitions >= 0

\* a card reviewed three times with quality 0 sits on the floor of 1.3
C1_Witness ==
  \E id \in CardIds :
     /\ Len(History(id)) >= 3
     /\ AllQuality(History(id), 0)
     /\ SR(id).easiness_factor = 130

\* C2: a review with quality < 3 leaves repetitions = 0 and interval = 1,
\* whatever the memory state before it was.
C2_FailureResets ==
  \A id \in CardIds :
     (Len(History(id)) > 0 /\ History(id)[Len(History(id))].quality < 3)
     => SR(id).repetitions = 0 /\ SR(id).interval = 1

\* a card that had reached repetitions 3 and an interval above 6 is failed
C2_Witness ==
  \E id \in CardIds :
     /\ Len(History(id)) = 4
     /\ \A k \in 1..3 : History(id)[k].quality >= 3
     /\ History(id)[4].quality < 3
     /\ SR(id).repetitions = 0
     /\ SR(id).interval = 1

C4_PerfectStreakGrows ==
  [][\A id \in CardIds :
       (Reviewed(id) /\ LastQuality(id) = 5 /\ AllQuality(History(id), 5))
       => LET n == Len(History(id))
              new == flashcards'[id].spaced_repetition
          IN /\ n = 0 => new.interval = 1
             /\ n = 1 => new.interval = 6
             /\ n >= 2 => new.interval > SR(id).interval]_vars

\* four reviews with quality 5: the intervals were 1, 6, 17, 49
C4_Witness ==
  \E id \in CardIds :
     /\ Len(History(id)) = 4
     /\ AllQuality(History(id), 5)
     /\ SR(id).interval > 17

\* C5: a review whose quality is not an integer in 0..5 is rejected before
\* any mutation, so no recorded review event carries such a quality and the
\* response to it is not a success.
C5_BadQualityRejected ==
  \A id \in CardIds :
     \A k \in 1..Len(History(id)) : History(id)[k].quality \in 0..5

\* C6: the due query returns only cards of the requesting user that are not
\* archived and whose next review date is <= now, at most 50 of them, and
\* answers 200 with an empty list when no card is due.
C6_DueQuery ==
  [][(resp'.route = "due" /\ now' = now /\ flashcards' = flashcards)
     => /\ resp'.status = 200
        /\ resp'.cards \subseteq CardIds
        /\ \A id \in resp'.cards :
              /\ flashcards[id].user_id = resp'.user
              /\ ~flashcards[id].is_archived
              /\ SR(id).next_review_date <= now
        /\ Cardinality(resp'.cards) <= 50
        /\ (\A id \in CardIds :
               \/ flashcards[id].user_id # resp'.user
               \/ flashcards[id].is_archived
               \/ SR(id).next_review_date > now)
           => resp'.cards = {}]_vars

\* more than 50 cards of the user are due and exactly 50 are returned
C6_Witness ==
  /\ resp.route = "due"
  /\ Cardinality(resp.cards) = 50
  /\ \E id \in CardIds \ resp.cards :
        /\ flashcards[id].user_id = resp.user
        /\ ~flashcards[id].is_archived
        /\ SR(id).next_review_date <= now

AttemptIds == 1..Len(attempts)

Completed(a) == attempts[a].status = "completed"

\* C7: an attempt is graded exactly once: a submit on a completed attempt is
\* rejected, and the answers, score, points, total time and analysis stored
\* by the first grading are never overwritten.
C7_GradedOnce ==
  [][\A a \in AttemptIds : Completed(a) => attempts'[a] = attempts[a]]_vars

\* C8: the score stored on a graded attempt lies between 0 and 100, also
\* when several answers name one question or outnumber the questions
\* (the score of a quiz without questions is the matter of C9).
C8_ScoreInRange ==
  \A a \in AttemptIds :
     (Completed(a) /\ attempts[a].score.den > 0)
     => /\ attempts[a].score.num >= 0
        /\ attempts[a].score.num <= 100 * attempts[a].score.den

\* C9: grading an attempt of a quiz with no questions never stores or
\* returns an undefined score (0/0).
C9_ZeroQuestionsDefined ==
  /\ \A a \in AttemptIds : Completed(a) => attempts[a].score.den # 0
  /\ (resp.route = "submit" /\ resp.status = 200) => resp.score.den # 0

\* the questions of quiz that carry the id an answer names
C10_Matches(quiz, ans) ==
  {j \in 1..Len(quiz.questions) :
     ToString(quiz.questions[j].question_id) = ans.question_id}

RECURSIVE C10_Points(_, _)
C10_Points(quiz, answers) ==
  IF answers = <<>> THEN 0
  ELSE LET ans == Head(answers)
           m == C10_Matches(quiz, ans)
       IN (IF m # {} /\ ans.is_correct
           THEN quiz.questions[CHOOSE j \in m : TRUE].points ELSE 0)
          + C10_Points(quiz, Tail(answers))

\* C10: an answer whose question id matches no question of the quiz is
\* graded incorrect and is no error: it adds nothing to the correct count
\* or to the points, and the submission completes the attempt.
C10_UnmatchedIsIncorrect ==
  [][\A a \in AttemptIds :
       attempts'[a] # attempts[a]
       => LET new == attempts'[a]
              quiz == quizzes[new.quiz_id]
              counted == {k \in 1..Len(new.answers) :
                            /\ C10_Matches(quiz, new.answers[k]) # {}
                            /\ new.answers[k].is_correct}
          IN /\ new.status = "completed"
             /\ resp'.route = "submit"
             /\ resp'.status = 200
             /\ \A k \in 1..Len(new.answers) :
                   C10_Matches(quiz, new.answers[k]) = {}
                   => ~new.answers[k].is_correct
             /\ new.score.num = 100 * Cardinality(counted)
             /\ resp'.correct_answers = Cardinality(counted)
             /\ new.points_earned = C10_Points(quiz, new.answers)
             /\ resp'.points_earned = new.points_earned]_vars

\* a completed attempt with one correct answer and one answer to no question
C10_Witness ==
  \E a \in AttemptIds :
     /\ Completed(a)
     /\ Len(attempts[a].answers) = 2
     /\ \E k \in 1..2 :
           C10_Matches(quizzes[attempts[a].quiz_id], attempts[a].answers[k]) = {}
     /\ attempts[a].score.num = 100
     /\ attempts[a].points_earned = 2

\* the question of the quiz an answer names: the first with that id
C11_Question(quiz, ans) ==
  quiz.questions[CHOOSE j \in C10_Matches(quiz, ans) :
                    \A i \in C10_Matches(quiz, ans) : j <= i]

\* the submitted answers that equal the correct answer of their question
C11_Right(quiz, answers) ==
  {k \in 1..Len(answers) :
     /\ C10_Matches(quiz, answers[k]) # {}
     /\ answers[k].user_answer = C11_Question(quiz, answers[k]).correct_answer}

\* C11: the score of a graded attempt is 100 * (submitted answers equal to
\* the correct answer of their question) / (questions of the quiz): the
\* denominator is the question count, not the number of answers.
C11_ScoreFormula ==
  \A a \in AttemptIds :
     Completed(a)
     => LET quiz == quizzes[attempts[a].quiz_id]
        IN /\ attempts[a].score.num
                = 100 * Cardinality(C11_Right(quiz, attempts[a].answers))
           /\ attempts[a].score.den = Len(quiz.questions)

\* one correct answer submitted to a quiz of two questions: 100 * 1 / 2
C11_Witness ==
  \E a \in AttemptIds :
     /\ Completed(a)
     /\ Len(quizzes[attempts[a].quiz_id].questions) = 2
     /\ Len(attempts[a].answers) = 1
     /\ attempts[a].answers[1].is_correct
     /\ attempts[a].score = [num |-> 100, den |-> 2]

RECURSIVE C12_Sum(_, _, _)
C12_Sum(quiz, answers, S) ==
  IF S = {} THEN 0
  ELSE LET k == CHOOSE x \in S : TRUE
       IN C11_Question(quiz, answers[k]).points + C12_Sum(quiz, answers, S \ {k})

\* C12: the points earned by a graded attempt are the sum, over the answers
\* graded correct, of the points of their question; incorrect and unmatched
\* answers add nothing.
C12_PointsEarned ==
  \A a \in AttemptIds :
     Completed(a)
     => LET quiz == quizzes[attempts[a].quiz_id]
            answers == attempts[a].answers
            correct == {k \in 1..Len(answers) : answers[k].is_correct}
        IN /\ correct = C11_Right(quiz, answers)
           /\ attempts[a].points_earned = C12_Sum(quiz, answers, correct)

\* both questions answered correctly: 2 + 3 points
C12_Witness ==
  \E a \in AttemptIds :
     /\ Completed(a)
     /\ Len(attempts[a].answers) = 2
     /\ \A k \in 1..2 : attempts[a].answers[k].is_correct
     /\ attempts[a].answers[1].question_id # attempts[a].answers[2].question_id
     /\ attempts[a].points_earned = 5

C13_Range(tags) == {tags[k] : k \in 1..Len(tags)}

\* the difficulties of the matched questions answered incorrectly
C13_Missed(quiz, answers) ==
  {C11_Question(quiz, answers[k]).difficulty :
     k \in {j \in 1..Len(answers) :
              /\ C10_Matches(quiz, answers[j]) # {}
              /\ ~answers[j].is_correct}}

C13_HardRight(quiz, answers) ==
  \E k \in 1..Len(answers) :
     /\ C10_Matches(quiz, answers[k]) # {}
     /\ answers[k].is_correct
     /\ C11_Question(quiz, answers[k]).difficulty = "hard"

\* one correct answer to the hard question, one wrong answer to the medium
C13_Example(quiz, answers) ==
  /\ Len(quiz.questions) = 2
  /\ Len(answers) = 2
  /\ answers[1].question_id # answers[2].question_id
  /\ C13_HardRight(quiz, answers)
  /\ C13_Missed(quiz, answers) = {"medium"}

\* C13: the stored analysis has set semantics: strengths is {"Complex
\* concepts"} if a correct answer is on a hard question and empty otherwise,
\* weaknesses is the set of "<difficulty> questions" of the matched questions
\* answered incorrectly, and no tag occurs twice; one correct hard and one
\* incorrect medium question of two give {"Complex concepts"}, {"medium
\* questions"} and score 50.
C13_AnalysisSets ==
  \A a \in AttemptIds :
     Completed(a)
     => LET quiz == quizzes[attempts[a].quiz_id]
            answers == attempts[a].answers
            pa == attempts[a].performance_analysis
        IN /\ C13_Range(pa.strengths)
                = (IF C13_HardRight(quiz, answers) THEN {"Complex concepts"}
                   ELSE {})
           /\ C13_Range(pa.weaknesses)
                = {d \o " questions" : d \in C13_Missed(quiz, answers)}
           /\ Len(pa.strengths) = Cardinality(C13_Range(pa.strengths))
           /\ Len(pa.weaknesses) = Cardinality(C13_Range(pa.weaknesses))
           /\ C13_Example(quiz, answers)
              => /\ pa.strengths = <<"Complex concepts">>
                 /\ pa.weaknesses = <<"medium questions">>
                 /\ attempts[a].score.num * 2 = 100 * attempts[a].score.den

\* the example of the claim has been graded
C13_Witness ==
  \E a \in AttemptIds :
     /\ Completed(a)
     /\ C13_Example(quizzes[attempts[a].quiz_id], attempts[a].answers)
     /\ attempts[a].performance_analysis.weaknesses = <<"medium questions">>

\* the calendar days on which user u started a session
SessionDays(u) ==
  {sessions[k].started_at \div DayLen :
     k \in {j \in 1..Len(sessions) : sessions[j].user_id = u}}

\* the step answers an analytics request
AnalyticsStep ==
  /\ resp'.route = "analytics"
  /\ UNCHANGED <<now, tod, sessions>>

\* the days of the unbroken run of session days that ends today
RunLength(u) ==
  Cardinality({k \in 1..(now + 1) : (now - k + 1)..now \subseteq SessionDays(u)})

\* C14: with sessions on each of the k consecutive days ending today, any
\* number per day, and on no other day, the streak is k.
C14_ConsecutiveDays ==
  [][AnalyticsStep
     => \A k \in 1..(now + 1) :
           SessionDays(resp'.user) = (now - k + 1)..now
           => resp'.study_streak = k]_vars

C16_GapEndsStreak ==
  [][AnalyticsStep => resp'.study_streak <= RunLength(resp'.user)]_vars

\* every order of a list of sessions
C17_Orders(ss) ==
  {[i \in 1..Len(ss) |-> ss[f[i]]] : f \in Permutations(1..Len(ss))}

\* C17: at a fixed time the streak is the same for every order of the same
\* sessions.
C17_OrderIndependent ==
  \A u \in Users :
     \A p \in C17_Orders(SessionsOf(sessions, u)) :
        calculateStreak(p, Stamp) = calculateStreak(SessionsOf(sessions, u), Stamp)

\* three sessions of one user on three different days, the latest today:
\* their six orders give one streak, which is not 0
C17_Witness ==
  \E u \in Users :
     /\ Len(SessionsOf(sessions, u)) = 3
     /\ Cardinality(SessionDays(u)) = 3
     /\ now \in SessionDays(u)
     /\ resp.route = "analytics"
     /\ resp.user = u
     /\ resp.study_streak >= 2

\* requests p and q reviewed one card from the same stored state, and no
\* other request has touched a card
C18_Raced(p, q) ==
  /\ p # q
  /\ reqs[p].pc = "done"
  /\ reqs[q].pc = "done"
  /\ reqs[p].id = reqs[q].id
  /\ reqs[p].doc = reqs[q].doc
  /\ \A o \in Procs \ {p, q} : reqs[o].pc = "idle"

\* the review of request p applied to a card
C18_Apply(card, p) == ReviewedCard(card, reqs[p].quality, reqs[p].rt, now)

\* C18: two reviews of one card served concurrently are both applied: the
\* card ends as if they were served one after the other in some order,
\* with times_reviewed grown by 2 and 2 more events in the history.
C18_NoLostUpdate ==
  \A p, q \in Procs :
     C18_Raced(p, q)
     => LET before == reqs[p].doc
            card == flashcards[reqs[p].id]
        IN /\ card.times_reviewed = before.times_reviewed + 2
           /\ Len(card.review_history) = Len(before.review_history) + 2
           /\ card \in {C18_Apply(C18_Apply(before, p), q),
                         C18_Apply(C18_Apply(before, q), p)}

SessionIds == 1..Len(sessions)

Ended(id) == "ended_at" \in DOMAIN sessions[id]

\* C19: a session is created with a start time and no end time, and is
\* finalized exactly once: an end request on an ended session changes none
\* of its end time, duration, cards reviewed, cards correct, focus score.
C19_FinalizedOnce ==
  [][/\ Len(sessions') > Len(sessions)
        => /\ sessions'[Len(sessions')].started_at = Stamp
           /\ "ended_at" \notin DOMAIN sessions'[Len(sessions')]
     /\ \A id \in SessionIds : Ended(id) => sessions'[id] = sessions[id]]_vars

\* user u owns the document with this id in a collection
C20_Owns(coll, u, id) == id \in 1..Len(coll) /\ coll[id].user_id = u

C20_NotFound ==
  /\ resp'.status = 404
  /\ UNCHANGED <<flashcards, quizzes, attempts, sessions>>

DueStep ==
  /\ resp'.route = "due"
  /\ UNCHANGED <<now, flashcards>>

\* the day of the last review of a card, from its history
LastReviewedAt(id) == History(id)[Len(History(id))].reviewed_at

\* C21: a review at time t sets last_reviewed to t and the next review date
\* to t + the new interval in days, which is at least 1; the due query does
\* not return the card before that date, and returns it (if not archived,
\* and the limit leaves room) from that date on until the next review.
C21_NextReviewDate ==
  [][/\ \A id \in CardIds :
           Reviewed(id)
           => LET new == flashcards'[id].spaced_repetition
              IN /\ new.last_reviewed = now
                 /\ new.interval >= 1
                 /\ new.next_review_date = now + new.interval
     /\ DueStep
        => \A id \in CardIds :
              (flashcards[id].user_id = resp'.user /\ Len(History(id)) > 0)
              => LET dueAt == LastReviewedAt(id) + SR(id).interval
                 IN /\ now < dueAt => id \notin resp'.cards
                    /\ (/\ now >= dueAt
                        /\ ~flashcards[id].is_archived
                        /\ Len(flashcards) <= DueLimit)
                       => id \in resp'.cards]_vars

\* a card reviewed twice with success has the interval 6 and is returned by
\* the due query on the sixth day after its last review
C21_Witness ==
  /\ resp.route = "due"
  /\ 1 \in resp.cards
  /\ Len(History(1)) = 2
  /\ SR(1).interval = 6
  /\ now = LastReviewedAt(1) + 6

\* C22: after any sequence of successful reviews of a card, times_reviewed
\* = times_correct + times_incorrect = the number of events in its history,
\* times_correct is the number of events with quality >= 3 and
\* times_incorrect the number with quality < 3.
C22_CountersMatchHistory ==
  \A id \in CardIds :
     LET h == History(id)
         card == flashcards[id]
     IN /\ card.times_reviewed = Len(h)
        /\ card.times_reviewed = card.times_correct + card.times_incorrect
        /\ card.times_correct = Cardinality({k \in 1..Len(h) : h[k].quality >= 3})
        /\ card.times_incorrect = Cardinality({k \in 1..Len(h) : h[k].quality < 3})

\* request p answers its review in this step
C23_Answers(p) == reqs[p].pc = "found" /\ reqs'[p].pc = "done"

\* C23: the review history of a card is append-only: each successful
\* review appends exactly one event with the submitted quality and the flag
\* (quality >= 3), and the events recorded earlier stay, in their order and
\* unchanged, after every later operation on the card.
C23_HistoryAppendOnly ==
  [][\A id \in CardIds :
       LET h == History(id)
           g == flashcards'[id].review_history
           savers == {p \in Procs : C23_Answers(p) /\ reqs[p].id = id}
       IN /\ Len(g) >= Len(h)
          /\ SubSeq(g, 1, Len(h)) = h
          /\ Len(g) = Len(h) + Cardinality(savers)
          /\ \A p \in savers :
                /\ g[Len(g)].quality = reqs[p].quality
                /\ g[Len(g)].was_correct = (reqs[p].quality >= 3)]_vars

\* a card with two events in its history, the second appended by a request
\* that had read the card before the first was saved, and updated since
C23_Witness ==
  \E id \in CardIds :
     /\ Len(History(id)) = 2
     /\ flashcards[id].times_reviewed = 1
     /\ flashcards[id].front = "front 2"

====
